---- MODULE Spec2Model ----
(***************************************************************************)
(* LINE x Notion knowledge bot, src/app.py.                                *)
(*                                                                         *)
(* A Python str is a sequence of code points, each code point a one-       *)
(* element string.  Code points outside ASCII are written with an ASCII    *)
(* stand-in of the same Unicode general category:                          *)
(*   "["  U+3010 (Ps)   "]"  U+3011 (Pe)   "|"  U+FF5C (Sm)                *)
(* and a fixed literal of the source that the code never inspects is one   *)
(* token: "SERIAL" (the two letters before ":" in the header), "UNTITLED", *)
(* "YES", "NO", "NO_INFO", "ASK", "RULES", "SOURCE_SEP", "CHAT_PROMPT".    *)
(* A Python dict is a record, or a sequence of [name, prop] pairs where    *)
(* the iteration order matters; None is the record Null.                   *)
(***************************************************************************)
EXTENDS Integers, Sequences, FiniteSets, TLC

VARIABLES
    db,         \* the records of the Notion database, in the order the store serves them
    pageLen,    \* how many records the store serves in one page
    call,       \* the operation that ran last, with its arguments
    ret,        \* what it returned
    exc,        \* the exception that left it ("none": it returned)
    found,      \* what search_notion returned in it: the chunks, and the page ids in order
    notionLog,  \* the requests it sent to Notion, each with the response
    llmLog,     \* the chat completions it asked for
    replyLog,   \* the LINE replies it sent
    status      \* the HTTP status of the response (0: not an HTTP request)

vars == <<db, pageLen, call, ret, exc, found, notionLog, llmLog, replyLog, status>>

\* ---------------------------------------------------------------- bounds
MaxRecords == 3
MaxLabelRecords == 3
MaxSearch == 1
MaxPageLen == 2
MaxHits == 3
MaxLimit == 2
MaxRequests == MaxRecords + MaxLabelRecords + 2

\* ------------------------------------------------------- program constants
PAGE_SIZE == 100
PREVIEW_LEN == 900
SERIAL_SENTINEL == 999999
SHORT_LEN == 2
HANDLER_MAX_HITS == 3

NOTION_DB_ID == "db"
LABEL_KEYS == <<"label">>
SERIAL_KEY == "serial"

\* None, and a value where None may stand as well
Null == [null |-> TRUE]

Some(v) == [null |-> FALSE, value |-> v]

\* ------------------------------------------------------------ code points
DigitChars == {"0", "1", "2", "3", "4", "5", "6", "7", "8", "9"}
PunctChars == {"-", ".", ":", ",", "(", ")", "[", "]", "?"}
SeparatorChars == {" "}
ControlChars == {"\n"}
WhitespaceChars == {" ", "\n"}
LineBreakChars == {"\n"}

lower(c) ==
    CASE c = "A" -> "a"
      [] c = "B" -> "b"
      [] OTHER -> c


\* ------------------------------------------------------------ str helpers
Take(t, n) == SubSeq(t, 1, IF Len(t) < n THEN Len(t) ELSE n)

Contains(sub, t) ==
    \E i \in 0..(Len(t) - Len(sub)) : SubSeq(t, i + 1, i + Len(sub)) = sub

RECURSIVE Join(_, _)
Join(sep, parts) ==
    IF parts = <<>> THEN <<>>
    ELSE IF Len(parts) = 1 THEN parts[1]
    ELSE parts[1] \o sep \o Join(sep, Tail(parts))

RECURSIVE Concat(_)
Concat(parts) ==
    IF parts = <<>> THEN <<>> ELSE parts[1] \o Concat(Tail(parts))

\* str.splitlines()[0] of a non-empty str
FirstLine(t) ==
    LET brk == {i \in 1..Len(t) : t[i] \in LineBreakChars}
    IN  IF brk = {} THEN t
        ELSE SubSeq(t, 1, (CHOOSE i \in brk : \A j \in brk : i <= j) - 1)

\* str.strip()
Strip(t) ==
    LET keep == {i \in 1..Len(t) : t[i] \notin WhitespaceChars}
    IN  IF keep = {} THEN <<>>
        ELSE SubSeq(t, CHOOSE i \in keep : \A j \in keep : i <= j,
                       CHOOSE i \in keep : \A j \in keep : i >= j)

DecimalDigit(d) ==
    CASE d = 0 -> "0" [] d = 1 -> "1" [] d = 2 -> "2" [] d = 3 -> "3"
      [] d = 4 -> "4" [] d = 5 -> "5" [] d = 6 -> "6" [] d = 7 -> "7"
      [] d = 8 -> "8" [] OTHER -> "9"

DigitVal(c) == CHOOSE d \in 0..9 : DecimalDigit(d) = c

\* str(i) for a natural number, as the f-string of the menu formats it
RECURSIVE ToDecimal(_)
ToDecimal(n) ==
    IF n < 10 THEN <<DecimalDigit(n)>>
    ELSE ToDecimal(n \div 10) \o <<DecimalDigit(n % 10)>>

\* int(s) of a run of digits
RECURSIVE ToInt(_)
ToInt(s) ==
    IF s = <<>> THEN 0
    ELSE 10 * ToInt(SubSeq(s, 1, Len(s) - 1)) + DigitVal(s[Len(s)])

\* ------------------------------------------------------------- text utils
\* regex.sub(r"[\p{P}\p{Z}\p{C}]+", "", txt).lower(); "" for a falsy txt
_normalize(txt) ==
    IF txt = <<>> THEN <<>>
    ELSE LET kept == SelectSeq(txt, LAMBDA c :
                         c \notin PunctChars \cup SeparatorChars \cup ControlChars)
         IN  [i \in 1..Len(kept) |-> lower(kept[i])]

_rich_array_to_text(arr) ==
    Concat([i \in 1..Len(arr) |->
               IF arr[i].plain_text.null THEN <<>> ELSE arr[i].plain_text.value])

_prop_to_text(prop) ==
    IF prop.type = "none" THEN <<>>
    ELSE CASE prop.type = "title" -> _rich_array_to_text(prop.title)
           [] prop.type = "rich_text" -> _rich_array_to_text(prop.rich_text)
           [] prop.type = "select" ->
                  IF prop.select.null THEN <<>> ELSE prop.select.value.name
           [] prop.type = "checkbox" ->
                  IF prop.checkbox THEN <<"YES">> ELSE <<"NO">>
           [] OTHER -> <<>>

\* props.get(key, {}): a dict with no "type"
NoProp == [type |-> "none"]

HasProp(page, key) == \E i \in 1..Len(page.properties) : page.properties[i].name = key

GetProp(page, key) ==
    IF HasProp(page, key)
    THEN page.properties[CHOOSE i \in 1..Len(page.properties) :
                             page.properties[i].name = key].prop
    ELSE NoProp

_page_title(page) ==
    LET ts == {i \in 1..Len(page.properties) : page.properties[i].prop.type = "title"}
    IN  IF ts = {} THEN <<>>
        ELSE _prop_to_text(page.properties[CHOOSE i \in ts : \A j \in ts : i <= j].prop)

_page_label(page) ==
    LET ks == {k \in 1..Len(LABEL_KEYS) : HasProp(page, LABEL_KEYS[k])}
    IN  IF ks = {} THEN <<>>
        ELSE _prop_to_text(GetProp(page, LABEL_KEYS[CHOOSE k \in ks : \A j \in ks : k <= j]))

_page_serial(page) ==
    IF SERIAL_KEY = "" THEN <<>> ELSE _prop_to_text(GetProp(page, SERIAL_KEY))

_page_header(page) ==
    LET title == IF _page_title(page) = <<>> THEN <<"UNTITLED">> ELSE _page_title(page)
        label == _page_label(page)
        serial == _page_serial(page)
        parts == (IF label # <<>> THEN <<label>> ELSE <<>>)
                 \o <<title>>
                 \o (IF serial # <<>> THEN <<(<<"SERIAL", ":">> \o serial)>> ELSE <<>>)
    IN  <<"[">> \o Join(<<"|">>, parts) \o <<"]">>

_page_all_text(page) ==
    LET vals == [i \in 1..Len(page.properties) |-> _prop_to_text(page.properties[i].prop)]
    IN  Join(<<"\n">>, SelectSeq(vals, LAMBDA v : v # <<>>))

\* ---------------------------------------------------------- serial order
IsDigit(t, i) == i <= Len(t) /\ t[i] \in DigitChars

\* the last index of the run of digits that starts at i (greedy \d+)
RECURSIVE DigitRunEnd(_, _)
DigitRunEnd(t, i) == IF IsDigit(t, i + 1) THEN DigitRunEnd(t, i + 1) ELSE i

\* the first index at or after i that holds no whitespace (greedy \s*)
RECURSIVE SkipSpace(_, _)
SkipSpace(t, i) ==
    IF i <= Len(t) /\ t[i] \in WhitespaceChars THEN SkipSpace(t, i + 1) ELSE i

\* a match of (\d+)\s*-\s*(\d+) that starts at i
DashMatchAt(t, i) ==
    IF ~IsDigit(t, i) THEN [ok |-> FALSE]
    ELSE LET e == DigitRunEnd(t, i)
             d == SkipSpace(t, e + 1)
             s == SkipSpace(t, d + 1)
         IN  IF d <= Len(t) /\ t[d] = "-" /\ IsDigit(t, s)
             THEN [ok |-> TRUE, g1 |-> SubSeq(t, i, e),
                   g2 |-> SubSeq(t, s, DigitRunEnd(t, s))]
             ELSE [ok |-> FALSE]

_serial_sort_key(serial) ==
    LET ms == {i \in 1..Len(serial) : DashMatchAt(serial, i).ok}
        ds == {i \in 1..Len(serial) : IsDigit(serial, i)}
    IN  IF ms # {}
        THEN LET m == DashMatchAt(serial, CHOOSE i \in ms : \A j \in ms : i <= j)
             IN  <<ToInt(m.g1), ToInt(m.g2)>>
        ELSE IF ds # {}
        THEN LET i == CHOOSE i \in ds : \A j \in ds : i <= j
             IN  <<ToInt(SubSeq(serial, i, DigitRunEnd(serial, i))), SERIAL_SENTINEL>>
        ELSE <<SERIAL_SENTINEL, SERIAL_SENTINEL>>

\* Python's order on tuples of two integers
TupleLess(a, b) == a[1] < b[1] \/ (a[1] = b[1] /\ a[2] < b[2])

TupleLeq(a, b) == ~TupleLess(b, a)

\* list.sort(key = serial key) is stable: x, later in the list than all of s,
\* goes after every element whose key is not greater
InsertBySerial(s, x) ==
    LET kx == _serial_sort_key(_page_serial(x))
        before == {i \in 1..Len(s) : TupleLeq(_serial_sort_key(_page_serial(s[i])), kx)}
        n == Cardinality(before)
    IN  SubSeq(s, 1, n) \o <<x>> \o SubSeq(s, n + 1, Len(s))

RECURSIVE sort_by_serial(_)
sort_by_serial(items) ==
    IF items = <<>> THEN <<>>
    ELSE InsertBySerial(sort_by_serial(SubSeq(items, 1, Len(items) - 1)),
                        items[Len(items)])

\* ------------------------------------------------------- record store
QUERY_PATH == <<"databases/", NOTION_DB_ID, "/query">>
SEARCH_PATH == <<"search">>

\* requests.post + raise_for_status + resp.json(): the remote either fails
\* (network error, non-2xx status, bad JSON) or answers.  The database query
\* serves the records from the cursor on, at most pageLen (and at most
\* page_size) of them, with has_more and the cursor of the next page; the
\* search endpoint answers what the remote index holds (remote.search).
_notion_post(path, payload, remote) ==
    IF remote.fail THEN [raised |-> TRUE]
    ELSE IF path = SEARCH_PATH
    THEN [raised |-> FALSE, data |-> [results |-> remote.search]]
    ELSE LET start == IF "start_cursor" \in DOMAIN payload
                      THEN payload.start_cursor.at ELSE 1
             n == IF payload.page_size < pageLen THEN payload.page_size ELSE pageLen
             end == IF start + n - 1 < Len(db) THEN start + n - 1 ELSE Len(db)
             more == end < Len(db)
         IN  [raised |-> FALSE,
              data |-> [results |-> SubSeq(db, start, end),
                        has_more |-> more,
                        next_cursor |-> IF more THEN [at |-> end + 1] ELSE Null]]

\* the cursor never stored
next_payload_stale(payload, data) == payload

\* payload["start_cursor"] = data.get("next_cursor")
next_payload(payload, data) ==
    [k \in DOMAIN payload \cup {"start_cursor"} |->
        IF k = "start_cursor" THEN data.next_cursor ELSE payload[k]]

\* the while loop of fetch_all_pages; request number failAt fails (0: none).
\* The loop is cut after MaxRequests requests, more than any chain here has.
RECURSIVE fetch_loop(_, _, _, _)
fetch_loop(pages, payload, log, failAt) ==
    IF Len(log) >= MaxRequests
    THEN [exc |-> "Unbounded", pages |-> <<>>, log |-> log]
    ELSE LET r == _notion_post(QUERY_PATH, payload,
                               [fail |-> (Len(log) + 1 = failAt), search |-> <<>>])
             log2 == Append(log, [path |-> QUERY_PATH, payload |-> payload, response |-> r])
         IN  IF r.raised
             THEN [exc |-> "RequestException", pages |-> <<>>, log |-> log2]
             ELSE IF ~r.data.has_more
             THEN [exc |-> "none", pages |-> pages \o r.data.results, log |-> log2]
             ELSE fetch_loop(pages \o r.data.results, next_payload(payload, r.data),
                             log2, failAt)

fetch_all_pages(failAt) == fetch_loop(<<>>, [page_size |-> PAGE_SIZE], <<>>, failAt)

\* containment one way only
label_matches_one_way(kw, lbl_norm) == Contains(kw, lbl_norm)

\* ------------------------------------------------------------- labels
\* kw in lbl_norm or lbl_norm in kw
label_matches(kw, lbl_norm) == Contains(kw, lbl_norm) \/ Contains(lbl_norm, kw)

\* the keys of groups, in insertion order
RECURSIVE group_keys(_, _, _)
group_keys(pages, kw, keys) ==
    IF pages = <<>> THEN keys
    ELSE LET label == _page_label(pages[1])
         IN  IF label = <<>> \/ ~label_matches(kw, _normalize(label))
                \/ (\E i \in 1..Len(keys) : keys[i] = label)
             THEN group_keys(Tail(pages), kw, keys)
             ELSE group_keys(Tail(pages), kw, Append(keys, label))

\* groups[label]
group_items(pages, kw, key) ==
    SelectSeq(pages, LAMBDA pg : _page_label(pg) = key /\ _page_label(pg) # <<>>
                                 /\ label_matches(kw, _normalize(_page_label(pg))))

Abs(n) == IF n < 0 THEN -n ELSE n

\* the sort key of a label: (normalize(l) != kw, abs(len(normalize(l)) - len(kw)))
label_sort_key(l, kw) ==
    <<IF _normalize(l) # kw THEN 1 ELSE 0, Abs(Len(_normalize(l)) - Len(kw))>>

\* sorted(keys, key = ...)[0]: sorted is stable, so the first of the least
best_label(keys, kw) ==
    LET least == {i \in 1..Len(keys) :
                     \A j \in 1..Len(keys) :
                         TupleLeq(label_sort_key(keys[i], kw), label_sort_key(keys[j], kw))}
    IN  keys[CHOOSE i \in least : \A j \in least : i <= j]

NoMatch == [label |-> Null, items |-> <<>>, total |-> 0]

list_label_items_by_keyword(keyword, limit, failAt) ==
    LET kw == _normalize(keyword)
    IN  IF kw = <<>> THEN [exc |-> "none", ret |-> NoMatch, log |-> <<>>]
        ELSE LET f == fetch_all_pages(failAt)
                 keys == group_keys(f.pages, kw, <<>>)
             IN  IF f.exc # "none" THEN [exc |-> f.exc, ret |-> NoMatch, log |-> f.log]
                 ELSE IF keys = <<>> THEN [exc |-> "none", ret |-> NoMatch, log |-> f.log]
                 ELSE LET best == best_label(keys, kw)
                          items == sort_by_serial(group_items(f.pages, kw, best))
                      IN  [exc |-> "none",
                           ret |-> [label |-> Some(best),
                                    items |-> Take(items, limit),
                                    total |-> Len(items)],
                           log |-> f.log]

\* ------------------------------------------------------- Notion search
\* f"{header}\n{preview}"
make_chunk(page, text) == _page_header(page) \o <<"\n">> \o Take(text, PREVIEW_LEN)

\* chunks.append(...); seen_ids.add(pid).  order lists the ids as appended.
add_hit(acc, page, text) ==
    [chunks |-> Append(acc.chunks, make_chunk(page, text)),
     seen_ids |-> acc.seen_ids \cup {page.id},
     order |-> Append(acc.order, page.id)]

\* the loop over the results of /v1/search
RECURSIVE search_loop(_, _, _)
search_loop(results, acc, max_hits) ==
    IF results = <<>> THEN acc
    ELSE LET pg == results[1]
         IN  IF pg.parent.type = "database_id" /\ pg.parent.database_id = NOTION_DB_ID
             THEN IF pg.id \in acc.seen_ids
                  THEN search_loop(Tail(results), acc, max_hits)
                  ELSE LET acc2 == add_hit(acc, pg, _page_all_text(pg))
                       IN  IF Len(acc2.chunks) >= max_hits THEN acc2
                           ELSE search_loop(Tail(results), acc2, max_hits)
             ELSE search_loop(Tail(results), acc, max_hits)

\* the scan comparing against the text as written, not normalized
scan_skips_raw(kw_norm, pg) ==
    kw_norm # <<>>
    /\ ~Contains(kw_norm, _page_all_text(pg) \o <<" ">> \o _page_title(pg))

\* the record is skipped when kw_norm and kw_norm not in _normalize(text + " " + title)
scan_skips(kw_norm, pg) ==
    kw_norm # <<>>
    /\ ~Contains(kw_norm, _normalize(_page_all_text(pg) \o <<" ">> \o _page_title(pg)))

\* the loop over fetch_all_pages()
RECURSIVE scan_loop(_, _, _, _)
scan_loop(pages, kw_norm, acc, max_hits) ==
    IF pages = <<>> THEN acc
    ELSE LET pg == pages[1]
         IN  IF pg.id \in acc.seen_ids \/ scan_skips(kw_norm, pg)
             THEN scan_loop(Tail(pages), kw_norm, acc, max_hits)
             ELSE LET acc2 == add_hit(acc, pg, _page_all_text(pg))
                  IN  IF Len(acc2.chunks) >= max_hits THEN acc2
                      ELSE scan_loop(Tail(pages), kw_norm, acc2, max_hits)

\* if len(chunks) < max_hits: the full scan runs
scan_needed(chunks, max_hits) == Len(chunks) < max_hits

no_hits == [chunks |-> <<>>, seen_ids |-> {}, order |-> <<>>]

search_payload(keyword) == [query |-> keyword, page_size |-> 50]

\* step 1, /v1/search: rsp is what _notion_post gave; an exception is logged
\* and leaves chunks empty
fast_path(keyword, max_hits, rsp) ==
    [acc |-> IF rsp.raised THEN no_hits
             ELSE search_loop(rsp.data.results, no_hits, max_hits),
     log |-> <<[path |-> SEARCH_PATH, payload |-> search_payload(keyword),
                response |-> rsp]>>]

\* step 2, the full scan: f is what fetch_all_pages gave; an exception is
\* logged and leaves chunks as they were
full_scan(kw_norm, max_hits, fast, f) ==
    [acc |-> IF f.exc # "none" THEN fast.acc
             ELSE scan_loop(f.pages, kw_norm, fast.acc, max_hits),
     log |-> fast.log \o f.log]

search_result(r) == [chunks |-> r.acc.chunks, order |-> r.acc.order, log |-> r.log]

search_steps(kw_norm, max_hits, remote, fast) ==
    IF ~scan_needed(fast.acc.chunks, max_hits) THEN search_result(fast)
    ELSE search_result(full_scan(kw_norm, max_hits, fast,
                                 fetch_all_pages(remote.scanFailAt)))

\* remote: searchFail, search (the results of /v1/search), scanFailAt
search_notion(keyword, max_hits, remote) ==
    search_steps(_normalize(keyword), max_hits, remote,
                 fast_path(keyword, max_hits,
                           _notion_post(SEARCH_PATH, search_payload(keyword),
                                        [fail |-> remote.searchFail,
                                         search |-> remote.search])))

\* ------------------------------------------------------- OpenAI helpers
\* client.chat.completions.create(...): fails, or answers llm.content (None or a str)
chat_completion(temperature, system, user, llm) ==
    [raised |-> llm.fail,
     call |-> [temperature |-> temperature, system |-> system, user |-> user,
               raised |-> llm.fail],
     content |-> IF llm.content.null THEN <<>> ELSE Strip(llm.content.value)]

\* (rsp.choices[0].message.content or "").strip(), unless the call raised
completion_result(rsp) ==
    IF rsp.raised THEN [exc |-> "OpenAIError", ret |-> <<>>, llmLog |-> <<rsp.call>>]
    ELSE [exc |-> "none", ret |-> rsp.content, llmLog |-> <<rsp.call>>]

gpt_general_chat(user_text, llm) ==
    completion_result(chat_completion("0.7", <<"CHAT_PROMPT">>, user_text, llm))

\* the grounded call without the guard on an empty chunk list
gpt_answer_from_kb_unguarded(question, chunks, llm) ==
    completion_result(
        chat_completion("0.0",
                        <<"RULES", "SOURCE_SEP">> \o Join(<<"\n", "\n">>, chunks),
                        question, llm))

gpt_answer_from_kb(question, chunks, llm) ==
    IF chunks = <<>>
    THEN [exc |-> "none", ret |-> <<"NO_INFO">>, llmLog |-> <<>>]
    ELSE completion_result(
             chat_completion("0.0",
                             <<"RULES", "SOURCE_SEP">> \o Join(<<"\n", "\n">>, chunks),
                             question, llm))

\* ------------------------------------------------------------- routes
\* line_bot_api.reply_message(event.reply_token, TextSendMessage(text))
reply_message(text, replyFail) ==
    [exc |-> IF replyFail THEN "LineBotApiError" ELSE "none",
     replyLog |-> <<[text |-> text, delivered |-> ~replyFail]>>]

\* f"{i}. {head}" for i, c in enumerate(hits, 1)
menu_option(i, c) == ToDecimal(i) \o <<".", " ">> \o Strip(FirstLine(c))

menu_text(hits) ==
    <<"ASK", "\n">> \o Join(<<"\n">>, [i \in 1..Len(hits) |-> menu_option(i, hits[i])])

\* the threshold one too low
is_short_below(user_text) == Len(_normalize(user_text)) < SHORT_LEN

\* len(_normalize(user_text)) <= 2
is_short(user_text) == Len(_normalize(user_text)) <= SHORT_LEN

\* what one run of handle_message did: s is what search_notion returned
handled(s, e, g, r) ==
    [exc |-> e, found |-> [chunks |-> s.chunks, order |-> s.order],
     notionLog |-> s.log, llmLog |-> g, replyLog |-> r]

replied(s, g, r) == handled(s, r.exc, g, r.replyLog)

\* reply = gpt_...(...); line_bot_api.reply_message(event.reply_token, ...)
send_answer(s, g, replyFail) ==
    IF g.exc # "none" THEN handled(s, g.exc, g.llmLog, <<>>)
    ELSE replied(s, g.llmLog, reply_message(g.ret, replyFail))

handle_text(user_text, s, llm, replyFail) ==
    IF is_short(user_text)
    THEN IF s.chunks # <<>>
         THEN replied(s, <<>>, reply_message(menu_text(s.chunks), replyFail))
         ELSE send_answer(s, gpt_general_chat(user_text, llm), replyFail)
    ELSE IF s.chunks # <<>>
         THEN send_answer(s, gpt_answer_from_kb(user_text, s.chunks, llm), replyFail)
         ELSE send_answer(s, gpt_general_chat(user_text, llm), replyFail)

handle_message(event, remote, llm, replyFail) ==
    handle_text(Strip(event.text),
                search_notion(Strip(event.text), HANDLER_MAX_HITS, remote),
                llm, replyFail)

NoFound == [chunks |-> <<>>, order |-> <<>>]

Quiet(st) == [exc |-> "none", status |-> st, found |-> NoFound,
              notionLog |-> <<>>, llmLog |-> <<>>, replyLog |-> <<>>]

\* the view's answer once handle_message ran: "OK" (200), or the exception
\* leaves the view function and Flask answers 500
answered(h) ==
    [exc |-> h.exc, status |-> IF h.exc # "none" THEN 500 ELSE 200,
     found |-> h.found, notionLog |-> h.notionLog,
     llmLog |-> h.llmLog, replyLog |-> h.replyLog]

\* handler.handle(body, signature) verifies the signature, then hands each
\* text message event to handle_message; a delivery carries at most one event
\* here.  abort(400) on InvalidSignatureError.
webhook(method, body, remote, llm, replyFail) ==
    IF method = "GET" THEN Quiet(200)
    ELSE IF ~body.signature_valid THEN Quiet(400)
    ELSE IF body.events = <<>> \/ body.events[1].type # "text" THEN Quiet(200)
    ELSE answered(handle_message(body.events[1], remote, llm, replyFail))

\* ------------------------------------------------------------ the inputs
Rich(t) == <<[plain_text |-> Some(t)]>>

\* a page of the database: a select label, the title, a rich-text serial and
\* a rich-text content, in this order
MkPage(id, parent, shape) ==
    [id |-> id,
     parent |-> [type |-> "database_id", database_id |-> parent],
     properties |-> <<
        [name |-> "label",
         prop |-> [type |-> "select",
                   select |-> IF shape.label = <<>> THEN Null
                             ELSE Some([name |-> shape.label])]],
        [name |-> "name", prop |-> [type |-> "title", title |-> Rich(shape.title)]],
        [name |-> "serial", prop |-> [type |-> "rich_text", rich_text |-> Rich(shape.serial)]],
        [name |-> "content", prop |-> [type |-> "rich_text", rich_text |-> Rich(shape.content)]]
     >>]

Shape(l, t, s, c) == [label |-> l, title |-> t, serial |-> s, content |-> c]

SearchShapes ==
    { Shape(<<"b">>, <<"a">>, <<"3", "-", "1">>, <<"A", " ", "b">>),
      Shape(<<>>, <<>>, <<>>, <<"a", "-", "B", "\n", "b">>),
      Shape(<<>>, <<"a", "\n", "b">>, <<>>, <<>>) }

LabelShapes ==
    { Shape(<<"a", "b">>, <<"a">>, <<"3", "-", "1", "0">>, <<>>),
      Shape(<<"a", "b">>, <<"b">>, <<"3", " ", "-", "2">>, <<>>),
      Shape(<<"A", "-", "b">>, <<"c">>, <<"3", "-", "1">>, <<>>),
      Shape(<<"b">>, <<"a">>, <<"a", "b", "c">>, <<>>),
      Shape(<<"-">>, <<"a">>, <<"2">>, <<>>),
      Shape(<<>>, <<"a">>, <<>>, <<"a", "b">>) }

SeqsUpTo(S, n) == UNION {[1..k -> S] : k \in 0..n}

Databases(shapes, n) ==
    { [i \in 1..Len(q) |-> MkPage(i, NOTION_DB_ID, q[i])] : q \in SeqsUpTo(shapes, n) }

\* a page of another database, which /v1/search may return as well
ForeignPage == MkPage(0, "other", Shape(<<>>, <<"a">>, <<>>, <<"a", "b", "b">>))

Keywords ==
    { <<>>, <<"-", " ">>, <<"a">>, <<"A", " ", "b">>, <<"a", ".", "b", "b">>,
      <<"z", "z", "z">> }

LabelKeywords ==
    { <<"?">>, <<"b">>, <<"a", "b">>, <<"c", " ", "a", "B">>, <<"a", "b", "c", "d">>,
      <<"z">> }

Messages ==
    { <<"?">>, <<" ", "a", "\n">>, <<"A", " ", "b">>, <<"a", ".", "b", "b">>,
      <<"z", "z", "z">> }

SearchResponses ==
    SeqsUpTo({db[i] : i \in 1..Len(db)} \cup {ForeignPage}, MaxSearch)

Remotes ==
    { [searchFail |-> TRUE, search |-> <<>>, scanFailAt |-> f] : f \in 0..1 }
    \cup { [searchFail |-> FALSE, search |-> r, scanFailAt |-> f] :
              r \in SearchResponses, f \in 0..1 }

Llms ==
    { [fail |-> TRUE, content |-> Null], [fail |-> FALSE, content |-> Null],
      [fail |-> FALSE, content |-> Some(<<" ", "o", "k", "\n">>)] }

\* chunk lists handed to gpt_answer_from_kb directly
ChunkLists ==
    { [i \in 1..Len(q) |-> make_chunk(q[i], _page_all_text(q[i]))] :
          q \in SeqsUpTo({db[i] : i \in 1..Len(db)}, MaxHits) }

\* deliveries that never reach handle_message: a bad signature, no event, an
\* event that is no text message
OtherBodies ==
    { [signature_valid |-> FALSE, events |-> <<>>],
      [signature_valid |-> FALSE, events |-> <<[type |-> "text", text |-> <<"a">>]>>],
      [signature_valid |-> TRUE, events |-> <<>>],
      [signature_valid |-> TRUE, events |-> <<[type |-> "sticker"]>>] }

TextBodies ==
    { [signature_valid |-> TRUE, events |-> <<[type |-> "text", text |-> m]>>] :
          m \in Messages }

NoRemote == [searchFail |-> FALSE, search |-> <<>>, scanFailAt |-> 0]

NoLlm == [fail |-> FALSE, content |-> Null]

\* ------------------------------------------------------------ the state
Idle ==
    /\ call = [op |-> "none"]
    /\ ret = <<>>
    /\ exc = "none"
    /\ found = NoFound
    /\ notionLog = <<>>
    /\ llmLog = <<>>
    /\ replyLog = <<>>
    /\ status = 0

Init ==
    /\ db \in Databases(SearchShapes, MaxRecords)
    /\ pageLen = MaxPageLen
    /\ Idle

InitStore ==
    /\ db \in Databases(LabelShapes, MaxLabelRecords)
    /\ pageLen \in 1..MaxPageLen
    /\ Idle

\* an operation runs when none is running
Ready == call.op = "none"

\* the outcome r of operation c becomes the state
Outcome(c, r) ==
    /\ call' = c
    /\ ret' = r.ret
    /\ exc' = r.exc
    /\ found' = r.found
    /\ notionLog' = r.notionLog
    /\ llmLog' = r.llmLog
    /\ replyLog' = r.replyLog
    /\ status' = r.status
    /\ UNCHANGED <<db, pageLen>>

SearchOutcome(r) ==
    [ret |-> r.chunks, exc |-> "none", found |-> [chunks |-> r.chunks, order |-> r.order],
     notionLog |-> r.log, llmLog |-> <<>>, replyLog |-> <<>>, status |-> 0]

GptOutcome(r) ==
    [ret |-> r.ret, exc |-> r.exc, found |-> NoFound,
     notionLog |-> <<>>, llmLog |-> r.llmLog, replyLog |-> <<>>, status |-> 0]

WebhookOutcome(r) ==
    [ret |-> IF r.status = 200 THEN <<"O", "K">> ELSE <<>>, exc |-> r.exc,
     found |-> r.found, notionLog |-> r.notionLog, llmLog |-> r.llmLog,
     replyLog |-> r.replyLog, status |-> r.status]

LabelOutcome(r) ==
    [ret |-> r.ret, exc |-> r.exc, found |-> NoFound,
     notionLog |-> r.log, llmLog |-> <<>>, replyLog |-> <<>>, status |-> 0]

FetchOutcome(r) ==
    [ret |-> r.pages, exc |-> r.exc, found |-> NoFound,
     notionLog |-> r.log, llmLog |-> <<>>, replyLog |-> <<>>, status |-> 0]

CallSearchNotion ==
    /\ Ready
    /\ \E keyword \in Keywords, max_hits \in 0..MaxHits, remote \in Remotes :
           Outcome([op |-> "search_notion", keyword |-> keyword, max_hits |-> max_hits],
                   SearchOutcome(search_notion(keyword, max_hits, remote)))

CallGptAnswerFromKb ==
    /\ Ready
    /\ \E question \in Messages, chunks \in ChunkLists, llm \in Llms :
           Outcome([op |-> "gpt_answer_from_kb", question |-> question, chunks |-> chunks],
                   GptOutcome(gpt_answer_from_kb(question, chunks, llm)))

WebhookGet ==
    /\ Ready
    /\ Outcome([op |-> "webhook", method |-> "GET", body |-> [events |-> <<>>]],
               WebhookOutcome(webhook("GET", [events |-> <<>>], NoRemote, NoLlm, FALSE)))

WebhookPostOther ==
    /\ Ready
    /\ \E body \in OtherBodies :
           Outcome([op |-> "webhook", method |-> "POST", body |-> body],
                   WebhookOutcome(webhook("POST", body, NoRemote, NoLlm, FALSE)))

WebhookPostText ==
    /\ Ready
    /\ \E body \in TextBodies, remote \in Remotes, llm \in Llms, replyFail \in BOOLEAN :
           Outcome([op |-> "webhook", method |-> "POST", body |-> body],
                   WebhookOutcome(webhook("POST", body, remote, llm, replyFail)))

CallListLabelItems ==
    /\ Ready
    /\ \E keyword \in LabelKeywords, limit \in 0..MaxLimit, failAt \in 0..1 :
           Outcome([op |-> "list_label_items_by_keyword",
                    keyword |-> keyword, limit |-> limit],
                   LabelOutcome(list_label_items_by_keyword(keyword, limit, failAt)))

CallFetchAllPages ==
    /\ Ready
    /\ \E failAt \in 0..MaxLabelRecords :
           Outcome([op |-> "fetch_all_pages"], FetchOutcome(fetch_all_pages(failAt)))

\* Requests are handled one at a time, each to completion: the outcome of a
\* call is taken before the next call starts.
Forget ==
    /\ ~Ready
    /\ call' = [op |-> "none"]
    /\ ret' = <<>>
    /\ exc' = "none"
    /\ found' = NoFound
    /\ notionLog' = <<>>
    /\ llmLog' = <<>>
    /\ replyLog' = <<>>
    /\ status' = 0
    /\ UNCHANGED <<db, pageLen>>

Next ==
    \/ CallSearchNotion
    \/ CallGptAnswerFromKb
    \/ WebhookGet
    \/ WebhookPostOther
    \/ WebhookPostText
    \/ Forget

NextStore == CallListLabelItems \/ CallFetchAllPages \/ Forget

Spec == Init /\ [][Next]_vars

SpecStore == InitStore /\ [][NextStore]_vars

\* ================================================================ claims
Range(q) == {q[i] : i \in 1..Len(q)}

IsSearch == call.op = "search_notion"

IsPost == call.op = "webhook" /\ call.method = "POST"

\* a POST with a valid signature that carries one text message
IsTextPost ==
    /\ IsPost
    /\ call.body.signature_valid
    /\ call.body.events # <<>>
    /\ call.body.events[1].type = "text"

UserText == Strip(call.body.events[1].text)

StoreFailed == \E i \in 1..Len(notionLog) : notionLog[i].response.raised

ModelFailed == \E i \in 1..Len(llmLog) : llmLog[i].raised

\* the positions of the records whose normalized aggregate text contains the
\* normalized keyword
Matching(keyword) ==
    {j \in 1..Len(db) :
        Contains(_normalize(keyword), _normalize(_page_all_text(db[j])))}

\* the ids of the pages /v1/search returned
SearchedIds ==
    IF notionLog = <<>> \/ notionLog[1].response.raised THEN {}
    ELSE {notionLog[1].response.data.results[i].id :
             i \in 1..Len(notionLog[1].response.data.results)}

PositionOf(id) == CHOOSE j \in 1..Len(db) : db[j].id = id

\* the hits that come from records visited before db[j]: those of the fast
\* path, and those of records that precede it in the store
EarlierHits(j) ==
    {id \in Range(found.order) : id \in SearchedIds \/ PositionOf(id) < j}

\* C1: search_notion(query, max_hits = k) returns at most k chunks for every
\* k >= 0, and exactly k when no remote call fails and more than k records match.
C1_SearchCapRespected ==
    IsSearch =>
        /\ Len(ret) <= call.max_hits
        /\ (~StoreFailed /\ Cardinality(Matching(call.keyword)) > call.max_hits)
               => Len(ret) = call.max_hits

\* C2: when no remote call fails, every record whose normalized aggregate text
\* contains the normalized query is among the hits of search_notion, unless
\* max_hits chunks were already collected from records visited earlier.
C2_MatchingRecordIncluded ==
    (IsSearch /\ ~StoreFailed) =>
        \A j \in Matching(call.keyword) :
            \/ db[j].id \in Range(found.order)
            \/ Cardinality(EarlierHits(j)) >= call.max_hits

\* a search without failure where the scan takes a record that matches only
\* after normalization, and leaves out a later matching record at the cap
C2_Witness ==
    /\ IsSearch
    /\ ~StoreFailed
    /\ call.max_hits > 0
    /\ \E j \in Matching(call.keyword) :
           /\ db[j].id \in Range(found.order)
           /\ db[j].id \notin SearchedIds
           /\ ~Contains(_normalize(call.keyword), _page_all_text(db[j]))
    /\ \E j \in Matching(call.keyword) : db[j].id \notin Range(found.order)

\* C3: when the query normalizes to the empty string, search_notion returns no
\* chunk, whatever the store holds.
C3_EmptyQueryNoChunks ==
    (IsSearch /\ _normalize(call.keyword) = <<>>) => ret = <<>>

\* C4: a POST to the webhook answers 400 only when the signature is invalid,
\* and 200 with body "OK" in every other case.
C4_WebhookStatus ==
    IsPost =>
        /\ (status = 400) <=> ~call.body.signature_valid
        /\ call.body.signature_valid => (status = 200 /\ ret = <<"O", "K">>)

\* C5: when the record store or the language model fails while a text message
\* is handled, no exception leaves handle_message and the user receives
\* exactly one reply, the generic failure message.
C5_FailureReplied ==
    (IsTextPost /\ (StoreFailed \/ ModelFailed)
        /\ \A i \in 1..Len(replyLog) : replyLog[i].delivered) =>
        /\ exc = "none"
        /\ Len(replyLog) = 1
        /\ replyLog[1].text = <<"FAILURE_MESSAGE">>

\* the line of the menu for hit number i: the number, ". ", and the part of
\* the chunk before its first line break, without surrounding whitespace
ExpectedOption(i, c) ==
    LET ends == {n \in 0..Len(c) :
                    /\ \A k \in 1..n : c[k] \notin LineBreakChars
                    /\ (n = Len(c) \/ c[n + 1] \in LineBreakChars)}
        line == SubSeq(c, 1, CHOOSE n \in ends : TRUE)
    IN  <<DecimalDigit(i), ".", " ">> \o Strip(line)

ExpectedMenu(hits) ==
    <<"ASK">> \o Concat([i \in 1..Len(hits) |-> <<"\n">> \o ExpectedOption(i, hits[i])])

\* C6: for a message whose normalized text has at most 2 characters no
\* grounded (temperature 0) answer is ever asked for, and when the search
\* finds a hit the single reply is the menu of the hits' first lines,
\* numbered from 1 in order.
C6_ShortQueryMenu ==
    (IsTextPost /\ Len(_normalize(UserText)) <= 2) =>
        /\ \A i \in 1..Len(llmLog) : llmLog[i].temperature # "0.0"
        /\ found.chunks # <<>> =>
               /\ llmLog = <<>>
               /\ Len(replyLog) = 1
               /\ replyLog[1].text = ExpectedMenu(found.chunks)

\* a short message of two characters with two hits, answered by the menu
C6_Witness ==
    /\ IsTextPost
    /\ Len(_normalize(UserText)) = 2
    /\ Len(found.chunks) = 2
    /\ Len(replyLog) = 1
    /\ replyLog[1].delivered

\* C7: gpt_answer_from_kb with no chunk returns the fixed sentence without a
\* call to the language model; so every grounded (temperature 0) call carries
\* at least one chunk.
C7_EmptyChunksShortCircuit ==
    /\ (call.op = "gpt_answer_from_kb" /\ call.chunks = <<>>) =>
           (ret = <<"NO_INFO">> /\ llmLog = <<>> /\ exc = "none")
    /\ \A i \in 1..Len(llmLog) :
           llmLog[i].temperature = "0.0" =>
               Len(llmLog[i].system) > Len(<<"RULES", "SOURCE_SEP">>)

\* gpt_answer_from_kb was called with an empty list
C7_Witness == call.op = "gpt_answer_from_kb" /\ call.chunks = <<>>

IsLabelCall == call.op = "list_label_items_by_keyword" /\ exc = "none"

\* the non-empty labels that contain the normalized query or are contained in it
MatchingLabels ==
    LET kw == _normalize(call.keyword)
    IN  {L \in {_page_label(db[i]) : i \in 1..Len(db)} :
            /\ L # <<>>
            /\ (Contains(kw, _normalize(L)) \/ Contains(_normalize(L), kw))}

LengthGap(L) == Abs(Len(_normalize(L)) - Len(_normalize(call.keyword)))

\* C8: list_label_items_by_keyword returns (None, [], 0) iff the normalized
\* query is empty or no non-empty label matches by containment either way;
\* otherwise the label returned is a matching one, equal to the query after
\* normalization when such a label exists, and else of least length gap.
C8_BestLabel ==
    IsLabelCall =>
        LET kw == _normalize(call.keyword)
            exact == {L \in MatchingLabels : _normalize(L) = kw}
        IN  /\ (ret = NoMatch) <=> (kw = <<>> \/ MatchingLabels = {})
            /\ ret.label.null <=> (kw = <<>> \/ MatchingLabels = {})
            /\ ~ret.label.null =>
                   /\ ret.label.value \in MatchingLabels
                   /\ exact # {} => ret.label.value \in exact
                   /\ exact = {} =>
                          \A L \in MatchingLabels : LengthGap(ret.label.value) <= LengthGap(L)

\* no label equals the query, the query contains one matching label and another
\* matching label is further from it in length
C8_Witness ==
    /\ IsLabelCall
    /\ ~ret.label.null
    /\ \A L \in MatchingLabels : _normalize(L) # _normalize(call.keyword)
    /\ Contains(_normalize(ret.label.value), _normalize(call.keyword))
    /\ \E L \in MatchingLabels : LengthGap(ret.label.value) < LengthGap(L)

SerialKeyOf(pg) == _serial_sort_key(_page_serial(pg))

\* C9: total_count is the number of records whose normalized label equals the
\* selected label's, and the list is the first min(limit, total_count) of those
\* records in ascending Serial Key order.
C9_GroupByNormalizedLabel ==
    (IsLabelCall /\ ~ret.label.null) =>
        LET same == {i \in 1..Len(db) :
                        /\ _page_label(db[i]) # <<>>
                        /\ _normalize(_page_label(db[i])) = _normalize(ret.label.value)}
            n == IF call.limit < Cardinality(same) THEN call.limit ELSE Cardinality(same)
        IN  /\ ret.total = Cardinality(same)
            /\ Len(ret.items) = n
            /\ Range(ret.items) \subseteq {db[i] : i \in same}
            /\ \A a, b \in 1..Len(ret.items) :
                   a < b => TupleLeq(SerialKeyOf(ret.items[a]), SerialKeyOf(ret.items[b]))
            /\ \A i \in same :
                   db[i] \notin Range(ret.items) =>
                       \A a \in 1..Len(ret.items) :
                           TupleLeq(SerialKeyOf(ret.items[a]), SerialKeyOf(db[i]))

IsFetch == call.op = "fetch_all_pages"

\* the number of pages of the chain the store serves
PageCount ==
    IF db = <<>> THEN 1 ELSE (Len(db) + pageLen - 1) \div pageLen

\* C10: over a chain of N pages fetch_all_pages sends exactly N requests, each
\* with page_size 100 and, after the first, the next_cursor of the previous
\* response, and returns the pages' results in order; a failed request is not
\* retried, raises, and no partial result is returned.
C10_FetchAllPages ==
    IsFetch =>
        /\ notionLog # <<>>
        /\ \A i \in 1..Len(notionLog) :
               /\ notionLog[i].payload.page_size = 100
               /\ i < Len(notionLog) => ~notionLog[i].response.raised
        /\ "start_cursor" \notin DOMAIN notionLog[1].payload
        /\ \A i \in 2..Len(notionLog) :
               /\ "start_cursor" \in DOMAIN notionLog[i].payload
               /\ notionLog[i].payload.start_cursor
                      = notionLog[i - 1].response.data.next_cursor
        /\ ~StoreFailed =>
               /\ exc = "none"
               /\ Len(notionLog) = PageCount
               /\ ret = Concat([i \in 1..Len(notionLog) |->
                                   notionLog[i].response.data.results])
               /\ ret = db
        /\ StoreFailed => (exc = "RequestException" /\ ret = <<>>)

\* a fetch over a chain of more than one page, and one whose second request fails
C10_Witness ==
    /\ IsFetch
    /\ exc = "none"
    /\ Len(notionLog) >= 2
    /\ Len(notionLog[1].response.data.results) >= 1

====
